---------------------------- MODULE Spec2Model ----------------------------
(* ArxivTLDR: the fetch / summarise / render / deliver pipeline of            *)
(* streamlit_arxiv_digest.py and its automation entry point daily_digest.py.  *)
(*                                                                            *)
(* Strings are sequences of one-character strings, so that strip, split,      *)
(* lower, startswith and the substring test are computed, not assumed.        *)
(* Instants are integers counted in ticks of 1/DayLen day, UTC.               *)
EXTENDS Integers, Sequences, FiniteSets, TLC

VARIABLES
    pc,                 \* position of the running call / entry point
    clock,              \* the current instant (UTC ticks)
    entry,              \* who runs: "cli", "ui", or a direct call
    env,                \* module-level credentials (lines 45-52)
    args,               \* arguments of the running call
    tz,                 \* UTC offset of the local zone, in ticks
    certifi,            \* whether the certifi package can be imported
    argv,               \* the flags on the command line of daily_digest.py
    config,             \* the JSON file --config names, if the flag is passed
    upstream,           \* what search.results() will yield, in order
    upstream_failed,    \* whether search.results() has raised
    examined,           \* number of upstream records the loop has consumed
    cutoff_date,        \* fetch_papers: naive local cutoff
    papers_with_scores, \* fetch_papers: accepted (paper, score) pairs
    scored,             \* calculate_paper_score: the terms of its latest call
    papers,             \* value returned by fetch_papers
    http,               \* outcome of the latest requests.post
    summary,            \* outcome of the latest summarise_abstract call
    llm_calls,          \* entry_ids summarise_abstract was called for, in order
    digests,            \* the (paper, summary) pairs collected so far
    rendered,           \* the (paper, summary) pairs given to format_paper_html
    environ,            \* os.environ: the two SSL variables
    smtp_calls,         \* SMTP connections attempted
    sendgrid_calls,     \* SendGrid requests attempted
    delivery,           \* the transport send_email chose and how it ended
    send_result,        \* value returned by the latest send_email call
    report,             \* what the entry point told the user
    exit_code           \* process exit status of the automation entry point

confVars == <<entry, env, args, tz, certifi, argv, config>>
fetchVars == <<upstream, upstream_failed, examined, cutoff_date,
               papers_with_scores, scored, papers>>
sumVars == <<http, summary, llm_calls, digests>>
sendVars == <<environ, smtp_calls, sendgrid_calls, delivery, send_result>>
runVars == <<rendered, report, exit_code>>

vars == <<pc, clock, confVars, fetchVars, sumVars, sendVars, runVars>>

-----------------------------------------------------------------------------
(* Bounds of the model *)

DayLen == 4          \* ticks per day
MaxUpstream == 3     \* longest upstream response
MaxPapers == 2       \* largest max_papers argument
MaxDaysBack == 2     \* largest days_back argument
MaxTicks == 2        \* how far the clock may advance during one fetch
RunMaxUpstream == 2  \* longest upstream response in a run of an entry point
CapSlack == 1        \* how far max_papers and the response exceed MAX_RESULTS
MaxScan == 4         \* longest response of stale and fresh records

-----------------------------------------------------------------------------
(* Strings *)

None == "None"

IsSpace(c) == c \in {" ", "\t", "\n"}

LowerChar(c) ==
    CASE c = "A" -> "a" [] c = "G" -> "g" [] c = "I" -> "i"
      [] c = "M" -> "m" [] c = "O" -> "o" [] c = "S" -> "s"
      [] c = "T" -> "t"
      [] OTHER -> c

\* str.lower()
Lower(s) == [i \in 1..Len(s) |-> LowerChar(s[i])]

\* str.strip()
RECURSIVE LStrip(_)
LStrip(s) == IF s # <<>> /\ IsSpace(Head(s)) THEN LStrip(Tail(s)) ELSE s

RECURSIVE RStrip(_)
RStrip(s) ==
    IF s # <<>> /\ IsSpace(s[Len(s)]) THEN RStrip(SubSeq(s, 1, Len(s) - 1)) ELSE s

Strip(s) == RStrip(LStrip(s))

\* str.startswith(prefix)
StartsWith(s, prefix) ==
    /\ Len(prefix) <= Len(s)
    /\ SubSeq(s, 1, Len(prefix)) = prefix

\* needle in haystack
Contains(haystack, needle) ==
    \E i \in 0..(Len(haystack) - Len(needle)) :
        SubSeq(haystack, i + 1, i + Len(needle)) = needle

\* str.split(',')
RECURSIVE SplitAcc(_, _)
SplitAcc(s, cur) ==
    IF s = <<>> THEN <<cur>>
    ELSE IF Head(s) = "," THEN <<cur>> \o SplitAcc(Tail(s), <<>>)
    ELSE SplitAcc(Tail(s), Append(cur, Head(s)))

Split(s) == SplitAcc(s, <<>>)

\* [x.strip() for x in s.split(',') if x.strip()]
StripNonEmpty(parts) ==
    LET stripped == [i \in 1..Len(parts) |-> Strip(parts[i])]
    IN  SelectSeq(stripped, LAMBDA x : x # <<>>)

\* ' '.join(names)
RECURSIVE Join(_)
Join(names) ==
    IF names = <<>> THEN <<>>
    ELSE IF Len(names) = 1 THEN names[1]
    ELSE names[1] \o <<" ">> \o Join(Tail(names))

Max(a, b) == IF a >= b THEN a ELSE b
Min(a, b) == IF a <= b THEN a ELSE b

\* an optional value: <<>> is None (or a missing key), <<v>> is the value v
Absent == <<>>
Some(v) == <<v>>
ValueOf(optional) == optional[1]

\* dict.get(key, default)
Get(optional, default) == IF optional = Absent THEN default ELSE ValueOf(optional)

-----------------------------------------------------------------------------
(* Paper records (arxiv.Result): the fields the pipeline reads. *)

Paper(id, published, title, abstract, authors) ==
    [entry_id |-> id, published |-> published, title |-> title,
     summary |-> abstract, authors |-> authors]

\* The records the upstream provider may return.  published is a UTC instant:
\* P1 and P2 one tick old, P3 a day and a tick, P4 ten days, P5 in the future.
Papers ==
    { Paper(1, -1, <<"A", "I">>, <<"a", "i">>, << <<"l", "i">> >>),
      Paper(2, -1, <<"A", "I">>, <<"a", "i">>, << <<"l", "i">> >>),
      Paper(3, -(DayLen + 1), <<"g", "o">>, <<"g", "o", " ", "a", "i">>,
               << <<"x", "u">>, <<"S", "m", "i", "t", "h">> >>),
      Paper(4, -(10 * DayLen), <<"a", "i", " ", "g", "o">>, <<"a", "i">>, <<>>),
      Paper(5, 1, <<"g", "o">>, <<"n", "o", "t", "e">>, << <<"x", "u">> >>) }

\* Upstream responses: sequences of records with distinct identifiers.
SeqsUpTo(S, n) == UNION {[1..k -> S] : k \in 0..n}

Responses(n) ==
    {u \in SeqsUpTo(Papers, n) :
        \A i, j \in 1..Len(u) : i # j => u[i].entry_id # u[j].entry_id}

KeywordInputs ==
    { <<>>, <<"a", "i">>, <<"A", "I", ",", " ", "g", "o", ",">> }

PrioritySourceInputs == { <<>>, <<"x", "u", ",", " ">> }

TzInputs == {-1, 0, 1}

EmailInputs == { <<>>, <<"a", "@", "b">> }

\* the arguments of a run: fetch_papers reads all but email
Args ==
    [email : EmailInputs,
     keywords : KeywordInputs,
     max_papers : 0..MaxPapers,
     days_back : 1..MaxDaysBack,
     sort_by_relevance : BOOLEAN,
     priority_sources : PrioritySourceInputs]

\* os.getenv of each credential: TRUE when set to a non-empty value
Envs ==
    [OPENROUTER_API_KEY : BOOLEAN, SENDGRID_API_KEY : BOOLEAN,
     GMAIL_USER : BOOLEAN, GMAIL_APP_PASSWORD : BOOLEAN]

NoEnv == [OPENROUTER_API_KEY |-> FALSE, SENDGRID_API_KEY |-> FALSE,
          GMAIL_USER |-> FALSE, GMAIL_APP_PASSWORD |-> FALSE]

\* os.environ without the two SSL variables
NoEnviron == [SSL_CERT_FILE |-> None, REQUESTS_CA_BUNDLE |-> None]

\* no flag on the command line (also the state of a run whose settings are
\* given directly in args)
NoFlags ==
    [email |-> Absent, keywords |-> Absent, categories |-> Absent,
     max_papers |-> Absent, days_back |-> Absent, priority_sources |-> Absent,
     no_relevance_sort |-> FALSE]

\* the state of each part before it has run
ConfigIdle ==
    /\ argv = NoFlags
    /\ config = Absent

FetchIdle ==
    /\ upstream_failed = FALSE
    /\ examined = 0
    /\ cutoff_date = 0
    /\ papers_with_scores = <<>>
    /\ scored = Absent
    /\ papers = <<>>

SummariseIdle ==
    /\ http = None
    /\ summary = None
    /\ llm_calls = <<>>
    /\ digests = <<>>

SendIdle ==
    /\ smtp_calls = 0
    /\ sendgrid_calls = 0
    /\ delivery = None
    /\ send_result = None

RunIdle ==
    /\ rendered = <<>>
    /\ report = None
    /\ exit_code = None

-----------------------------------------------------------------------------
(* Clock: datetime.now() is the naive local wall clock; a record's            *)
(* published.replace(tzinfo=None) is its UTC wall clock with the zone dropped. *)

NowLocal == clock + tz

NaivePublished(paper) == paper.published

\* timedelta.days: whole days, rounded towards minus infinity
TimedeltaDays(delta) == delta \div DayLen

-----------------------------------------------------------------------------
(* calculate_paper_score.  Scores are kept as integers in units of            *)
(* 1/ScoreScale, so that x/7 and n/10 stay exact.                             *)

ScoreScale == 7 * 10

DefaultSources ==
    << <<"g", "o", "o", "g", "l", "e">>,
       <<"o", "p", "e", "n", "a", "i">>,
       <<"m", "i", "c", "r", "o", "s", "o", "f", "t">>,
       <<"m", "e", "t", "a">>,
       <<"d", "e", "e", "p", "m", "i", "n", "d">>,
       <<"a", "n", "t", "h", "r", "o", "p", "i", "c">>,
       <<"s", "t", "a", "n", "f", "o", "r", "d">>,
       <<"m", "i", "t">>,
       <<"b", "e", "r", "k", "e", "l", "e", "y">>,
       <<"c", "m", "u">>,
       <<"o", "x", "f", "o", "r", "d">>,
       <<"c", "a", "m", "b", "r", "i", "d", "g", "e">> >>

\* mutant: a second keyword found in the same text adds nothing
KeywordHits_Capped(priority_keywords, text) ==
    Min(1, Cardinality({i \in 1..Len(priority_keywords) :
                           Contains(Lower(text), Lower(priority_keywords[i]))}))

\* number of keywords occurring in text (one count per keyword)
KeywordHits(priority_keywords, text) ==
    Cardinality({i \in 1..Len(priority_keywords) :
                    Contains(Lower(text), Lower(priority_keywords[i]))})

RecencyScore(paper, now) ==
    LET days_old == TimedeltaDays(now - NaivePublished(paper))
    IN  Max(0, 7 - days_old) * (ScoreScale \div 7) * 2

AuthorScore(paper) == Min(Len(paper.authors) * (ScoreScale \div 10), ScoreScale)

\* mutant: the loop over the sources has no break
SourceScore_PerMatch(paper, priority_sources) ==
    LET sources == IF priority_sources # <<>> THEN priority_sources
                   ELSE DefaultSources
        author_text ==
            Join([i \in 1..Len(paper.authors) |-> Lower(paper.authors[i])])
    IN  2 * ScoreScale
          * Cardinality({i \in 1..Len(sources) :
                            Contains(author_text, Strip(Lower(sources[i])))})

SourceScore(paper, priority_sources) ==
    LET sources == IF priority_sources # <<>> THEN priority_sources
                   ELSE DefaultSources
        author_text ==
            Join([i \in 1..Len(paper.authors) |-> Lower(paper.authors[i])])
    IN  IF \E i \in 1..Len(sources) :
               Contains(author_text, Strip(Lower(sources[i])))
        THEN 2 * ScoreScale ELSE 0

calculate_paper_score(paper, priority_keywords, priority_sources, now) ==
      RecencyScore(paper, now)
    + 3 * ScoreScale * KeywordHits(priority_keywords, paper.title)
    + ScoreScale * KeywordHits(priority_keywords, paper.summary)
    + AuthorScore(paper)
    + SourceScore(paper, priority_sources)

\* what each step of lines 125-161 adds to score, and the value returned
ScoreParts(paper, priority_keywords, priority_sources, now) ==
    [recency |-> RecencyScore(paper, now),
     title |-> 3 * ScoreScale * KeywordHits(priority_keywords, paper.title),
     abstract |-> ScoreScale * KeywordHits(priority_keywords, paper.summary),
     authors |-> AuthorScore(paper),
     source |-> SourceScore(paper, priority_sources),
     score |-> calculate_paper_score(paper, priority_keywords,
                                     priority_sources, now)]

-----------------------------------------------------------------------------
(* fetch_papers *)

\* line 214
PriorityKeywords(keywords) ==
    IF Strip(keywords) # <<>> THEN StripNonEmpty(Split(keywords)) ELSE <<>>

\* line 215; None and the empty list are both falsy at line 149
PrioritySourceList(priority_sources) ==
    IF priority_sources # <<>> THEN StripNonEmpty(Split(priority_sources))
    ELSE <<>>

\* mutant: the scan cap falls below the result cap
SearchLimit_Halved(max_papers) == max_papers \div 2

\* line 203
SearchLimit(max_papers) == max_papers * 3

\* line 218
PassesCutoff(paper, cutoff) == NaivePublished(paper) >= cutoff

\* mutant: an unstable sort, equal scores end up in reverse upstream order
RECURSIVE InsertByScore_TiesFirst(_, _)
InsertByScore_TiesFirst(sorted, item) ==
    IF sorted = <<>> THEN <<item>>
    ELSE IF Head(sorted).score > item.score
         THEN <<Head(sorted)>> \o InsertByScore_TiesFirst(Tail(sorted), item)
         ELSE <<item>> \o sorted

\* list.sort(key=score, reverse=True): stable, equal scores keep their order
RECURSIVE InsertByScore(_, _)
InsertByScore(sorted, item) ==
    IF sorted = <<>> THEN <<item>>
    ELSE IF Head(sorted).score >= item.score
         THEN <<Head(sorted)>> \o InsertByScore(Tail(sorted), item)
         ELSE <<item>> \o sorted

RECURSIVE SortByScoreDesc(_)
SortByScoreDesc(items) ==
    IF items = <<>> THEN <<>>
    ELSE InsertByScore(SortByScoreDesc(SubSeq(items, 1, Len(items) - 1)),
                       items[Len(items)])

\* mutant: the slice is dropped and every candidate is returned
SlicePrefix_NoCap(items, n) == items

\* items[:n]
SlicePrefix(items, n) ==
    IF n >= 0 THEN SubSeq(items, 1, Min(n, Len(items)))
    ELSE SubSeq(items, 1, Max(0, Len(items) + n))

\* lines 228-233
RankAndTruncate(items, sort_by_relevance, max_papers) ==
    LET ordered == IF sort_by_relevance THEN SortByScoreDesc(items) ELSE items
        top == SlicePrefix(ordered, max_papers)
    IN  [i \in 1..Len(top) |-> top[i].paper]


\* lines 169-215: the call up to the first request to the provider
FetchBegin ==
    /\ pc = "fetch_call"
    /\ cutoff_date' = NowLocal - args.days_back * DayLen
    /\ papers_with_scores' = <<>>
    /\ examined' = 0
    /\ pc' = "fetch_loop"
    /\ UNCHANGED <<clock, confVars, upstream, upstream_failed, scored, papers,
                   sumVars, sendVars, runVars>>

\* lines 217-226: one iteration of the loop over search.results()
FetchExamine ==
    /\ pc = "fetch_loop"
    /\ examined < Len(upstream)
    /\ LET paper == upstream[examined + 1]
           parts == ScoreParts(paper, PriorityKeywords(args.keywords),
                               PrioritySourceList(args.priority_sources),
                               NowLocal)
           score == IF args.sort_by_relevance THEN parts.score ELSE 0
           collected == IF PassesCutoff(paper, cutoff_date)
                        THEN Append(papers_with_scores,
                                    [paper |-> paper, score |-> score])
                        ELSE papers_with_scores
       IN  /\ papers_with_scores' = collected
           /\ scored' = IF PassesCutoff(paper, cutoff_date)
                           /\ args.sort_by_relevance
                        THEN Some(parts) ELSE scored
           /\ pc' = IF Len(collected) >= SearchLimit(args.max_papers)
                    THEN "fetch_rank" ELSE "fetch_loop"
    /\ examined' = examined + 1
    /\ UNCHANGED <<clock, confVars, upstream, upstream_failed, cutoff_date,
                   papers, sumVars, sendVars, runVars>>

\* line 217: the generator is exhausted
FetchExhausted ==
    /\ pc = "fetch_loop"
    /\ examined = Len(upstream)
    /\ pc' = "fetch_rank"
    /\ UNCHANGED <<clock, confVars, fetchVars, sumVars, sendVars, runVars>>

\* mutant: the loop is wrapped in a try that ends it quietly
FetchUpstreamError_Swallowed ==
    /\ pc = "fetch_loop"
    /\ ~upstream_failed
    /\ upstream_failed' = TRUE
    /\ pc' = "fetch_rank"
    /\ UNCHANGED <<clock, confVars, upstream, examined, cutoff_date,
                   papers_with_scores, scored, papers, sumVars, sendVars,
                   runVars>>

\* line 217: search.results() raises; nothing in fetch_papers catches it
FetchUpstreamError ==
    /\ pc = "fetch_loop"
    /\ ~upstream_failed
    /\ upstream_failed' = TRUE
    /\ pc' = "fetch_raised"
    /\ UNCHANGED <<clock, confVars, upstream, examined, cutoff_date,
                   papers_with_scores, scored, papers, sumVars, sendVars,
                   runVars>>

\* lines 228-233
FetchReturn ==
    /\ pc = "fetch_rank"
    /\ papers' = RankAndTruncate(papers_with_scores, args.sort_by_relevance,
                                 args.max_papers)
    /\ pc' = "fetch_returned"
    /\ UNCHANGED <<clock, confVars, upstream, upstream_failed, examined,
                   cutoff_date, papers_with_scores, scored, sumVars, sendVars,
                   runVars>>

\* time passes while the provider is being read
Tick ==
    /\ pc = "fetch_loop"
    /\ clock < MaxTicks
    /\ clock' = clock + 1
    /\ UNCHANGED <<pc, confVars, fetchVars, sumVars, sendVars, runVars>>

\* fetch_papers called directly, with any arguments and any upstream response
InitFetch ==
    /\ pc = "fetch_call"
    /\ clock = 0
    /\ entry = "fetch_papers"
    /\ env = NoEnv
    /\ args \in {a \in Args : a.email = <<>>}
    /\ tz \in TzInputs
    /\ certifi = FALSE
    /\ upstream \in Responses(MaxUpstream)
    /\ environ = NoEnviron
    /\ ConfigIdle
    /\ FetchIdle
    /\ SummariseIdle
    /\ SendIdle
    /\ RunIdle

NextFetch ==
    \/ FetchBegin
    \/ FetchExamine
    \/ FetchExhausted
    \/ FetchUpstreamError
    \/ FetchReturn
    \/ Tick

SpecFetch == InitFetch /\ [][NextFetch]_vars

\* a response of Len(fresh) records: record i is a tick old where fresh[i]
\* holds and ten days old where it does not
MixedResponse(fresh) ==
    [i \in 1..Len(fresh) |->
        Paper(i, IF fresh[i] THEN -1 ELSE -(10 * DayLen),
              <<"A", "I">>, <<"a", "i">>, <<>>)]

\* fetch_papers called directly while the provider yields stale and fresh
\* records in any order, as many as it likes
InitScan ==
    /\ pc = "fetch_call"
    /\ clock = 0
    /\ entry = "fetch_papers"
    /\ env = NoEnv
    /\ args \in [email : {<<>>},
                  keywords : {<<>>},
                  max_papers : 0..MaxPapers,
                  days_back : {1},
                  sort_by_relevance : BOOLEAN,
                  priority_sources : {<<>>}]
    /\ tz = 0
    /\ certifi = FALSE
    /\ upstream \in {MixedResponse(fresh) : fresh \in SeqsUpTo(BOOLEAN, MaxScan)}
    /\ environ = NoEnviron
    /\ ConfigIdle
    /\ FetchIdle
    /\ SummariseIdle
    /\ SendIdle
    /\ RunIdle

SpecScan == InitScan /\ [][NextFetch]_vars

\* the records calculate_paper_score is given: those of Papers and one that
\* is a tick more than seven days old
ScorePapers ==
    Papers \cup {Paper(6, -(7 * DayLen + 1), <<"g", "o">>, <<"a", "i">>, <<>>)}

\* priority_sources with two patterns that match different authors
ScoreSourceInputs ==
    PrioritySourceInputs \cup { <<"M", "I", "T", ",", " ", "x", "u">> }

\* lines 122-161: one call of calculate_paper_score, on the lists fetch_papers
\* builds from its arguments (lines 214-215, 220)
ScoreCall ==
    /\ pc = "score_call"
    /\ scored' = Some(ScoreParts(upstream[1], PriorityKeywords(args.keywords),
                                 PrioritySourceList(args.priority_sources),
                                 NowLocal))
    /\ pc' = "score_returned"
    /\ UNCHANGED <<clock, confVars, upstream, upstream_failed, examined,
                   cutoff_date, papers_with_scores, papers, sumVars, sendVars,
                   runVars>>

\* calculate_paper_score called for any record, keywords, sources and instant
InitScore ==
    /\ pc = "score_call"
    /\ clock \in 0..MaxTicks
    /\ entry = "calculate_paper_score"
    /\ env = NoEnv
    /\ args \in [email : {<<>>},
                  keywords : KeywordInputs,
                  max_papers : {1},
                  days_back : {1},
                  sort_by_relevance : {TRUE},
                  priority_sources : ScoreSourceInputs]
    /\ tz \in TzInputs
    /\ certifi = FALSE
    /\ upstream \in {<<paper>> : paper \in ScorePapers}
    /\ environ = NoEnviron
    /\ ConfigIdle
    /\ FetchIdle
    /\ SummariseIdle
    /\ SendIdle
    /\ RunIdle

NextScore == ScoreCall

SpecScore == InitScore /\ [][NextScore]_vars

\* line 41: the cap of the page's "Number of papers" slider (line 618)
MAX_RESULTS == 20

\* a response of n fresh records with distinct identifiers
LongResponse(n) ==
    [i \in 1..n |-> Paper(i, -1, <<"A", "I">>, <<"a", "i">>, <<>>)]

\* fetch_papers called directly with max_papers at and above MAX_RESULTS, as
\* daily_digest.py lines 143, 151 and 177 pass it on, and a long response
InitCap ==
    /\ pc = "fetch_call"
    /\ clock = 0
    /\ entry = "fetch_papers"
    /\ env = NoEnv
    /\ args \in [email : {<<>>},
                  keywords : {<<>>},
                  max_papers : MAX_RESULTS..(MAX_RESULTS + CapSlack),
                  days_back : {1},
                  sort_by_relevance : BOOLEAN,
                  priority_sources : {<<>>}]
    /\ tz = 0
    /\ certifi = FALSE
    /\ upstream \in {LongResponse(n) :
                         n \in (MAX_RESULTS - 1)..(MAX_RESULTS + CapSlack)}
    /\ environ = NoEnviron
    /\ ConfigIdle
    /\ FetchIdle
    /\ SummariseIdle
    /\ SendIdle
    /\ RunIdle

SpecCap == InitCap /\ [][NextFetch]_vars

-----------------------------------------------------------------------------
(* summarise_abstract.  The pictographs are single characters; the wording    *)
(* after each marker is abbreviated.                                          *)

CrossMark == "U+274C"
WarningSign == "U+26A0"
VariationSelector == "U+FE0F"

MsgNoKey ==
    <<WarningSign, VariationSelector, " ", "n", "o", " ", "k", "e", "y">>
MsgApiError == <<CrossMark, " ", "A", "P", "I">>
MsgOpenRouterError == <<CrossMark, " ", "O", "p", "e", "n">>
MsgNoContent == <<CrossMark, " ", "N", "o">>
MsgTimeout == <<CrossMark, " ", "R", "e", "q">>
MsgNetworkError == <<CrossMark, " ", "N", "e", "t">>
MsgErrorGenerating == <<CrossMark, " ", "E", "r", "r">>

\* message.content values: empty, blank, a bullet text, a padded bullet text
ContentInputs ==
    { <<>>, <<" ", "\n">>, <<"*", " ", "o", "k">>, <<" ", "*", "o", "k", "\n">> }

\* choices[0] of a response body: no message, no content, or a content string
ChoiceInputs ==
    {[message |-> Absent], [message |-> Some([content |-> Absent])]}
        \cup {[message |-> Some([content |-> Some(c)])] : c \in ContentInputs}

\* response bodies: not JSON (response.json() raises a ValueError, which is a
\* RequestException or not depending on the requests version), or an object
\* with or without "error" and "choices"
BodyInputs ==
    {[json |-> FALSE, as_request_exception |-> b] : b \in BOOLEAN}
        \cup [json : {TRUE},
              error : {None, "dict", "dict_without_message", "string"},
              choices : {Absent, Some(<<>>)}
                            \cup {Some(<<c>>) : c \in ChoiceInputs}]

StatusInputs == {200, 429, 500}

\* what requests.post does
HttpOutcomes ==
    {[kind |-> "Timeout"], [kind |-> "RequestException"]}
        \cup [kind : {"response"}, status_code : StatusInputs, body : BodyInputs]

Return(value) == [kind |-> "return", value |-> value]
Raise(exception) == [kind |-> "raise", exception |-> exception]

\* lines 101-112, after the response has arrived
SummariseResponse(response) ==
    IF response.status_code # 200 THEN Return(MsgApiError)
    ELSE IF ~response.body.json
         THEN IF response.body.as_request_exception
              THEN Raise("RequestException") ELSE Raise("Exception")
    ELSE IF response.body.error # None
         THEN IF response.body.error = "string"
              THEN Raise("Exception")       \* str has no .get
              ELSE Return(MsgOpenRouterError)
    ELSE IF /\ response.body.choices # Absent
            /\ Len(ValueOf(response.body.choices)) > 0
         THEN LET message == ValueOf(response.body.choices)[1].message
              IN  IF message = Absent THEN Raise("Exception")
                  ELSE IF ValueOf(message).content = Absent
                       THEN Raise("Exception")   \* None has no .strip
                  ELSE Return(Strip(ValueOf(ValueOf(message).content)))
    ELSE Return(MsgNoContent)

\* lines 60-112: the body of the try statement
SummariseTry(outcome) ==
    IF outcome.kind = "response" THEN SummariseResponse(outcome)
    ELSE Raise(outcome.kind)

\* mutant: the last except clause is missing
SummariseExcept_NoCatchAll(result) ==
    IF result.kind = "return" THEN result
    ELSE IF result.exception = "Timeout" THEN Return(MsgTimeout)
    ELSE IF result.exception = "RequestException" THEN Return(MsgNetworkError)
    ELSE result

\* lines 114-119: the except clauses, in order
SummariseExcept(result) ==
    IF result.kind = "return" THEN result
    ELSE IF result.exception = "Timeout" THEN Return(MsgTimeout)
    ELSE IF result.exception = "RequestException" THEN Return(MsgNetworkError)
    ELSE Return(MsgErrorGenerating)

\* lines 55-119
summarise_abstract(api_key, outcome) ==
    IF ~api_key THEN Return(MsgNoKey)
    ELSE SummariseExcept(SummariseTry(outcome))

\* the request is made only past the credential test of line 57
HttpOf(api_key, outcome) == IF api_key THEN outcome ELSE None

\* one call of summarise_abstract, for any outcome of the request
Summarise ==
    /\ pc = "summarise_call"
    /\ \E outcome \in HttpOutcomes :
           /\ http' = HttpOf(env.OPENROUTER_API_KEY, outcome)
           /\ summary' = summarise_abstract(env.OPENROUTER_API_KEY, outcome)
    /\ pc' = "summarise_returned"
    /\ UNCHANGED <<clock, confVars, fetchVars, llm_calls, digests, sendVars,
                   runVars>>

\* summarise_abstract called directly, with or without the credential
InitSummarise ==
    /\ pc = "summarise_call"
    /\ clock = 0
    /\ entry = "summarise_abstract"
    /\ env \in {e \in Envs : ~e.SENDGRID_API_KEY /\ ~e.GMAIL_USER
                              /\ ~e.GMAIL_APP_PASSWORD}
    /\ args \in {a \in Args : /\ a.email = <<>>
                              /\ a.keywords = <<>>
                              /\ a.max_papers = 0
                              /\ a.days_back = 1
                              /\ a.sort_by_relevance
                              /\ a.priority_sources = <<>>}
    /\ tz = 0
    /\ certifi = FALSE
    /\ upstream = <<>>
    /\ environ = NoEnviron
    /\ ConfigIdle
    /\ FetchIdle
    /\ SummariseIdle
    /\ SendIdle
    /\ RunIdle

NextSummarise == Summarise

SpecSummarise == InitSummarise /\ [][NextSummarise]_vars

-----------------------------------------------------------------------------
(* send_email and its two transports *)

\* how a Gmail attempt can end: the SSL context cannot be built or loaded
\* (before any connection), the SMTP conversation fails, or the mail is sent
GmailOutcomes == {"ssl_context_error", "smtp_error", "sent"}

\* how a SendGrid attempt can end: the client or the Mail object cannot be
\* built (before any request), the request raises, or a status comes back
SendGridOutcomes == {"client_error", "request_error", "status_202", "status_other"}

SendDone(ok, transport, outcome, smtp, sendgrid, new_environ) ==
    [ok |-> ok, transport |-> transport, outcome |-> outcome,
     smtp |-> smtp, sendgrid |-> sendgrid, environ |-> new_environ]

\* lines 277-278
SslEnviron(has_certifi) ==
    LET value == IF has_certifi THEN "certifi.where()" ELSE ""
    IN  [SSL_CERT_FILE |-> value, REQUESTS_CA_BUNDLE |-> value]

\* lines 236-301
send_email_gmail(credentials, has_certifi, old_environ, outcome) ==
    IF ~credentials.GMAIL_USER \/ ~credentials.GMAIL_APP_PASSWORD
    THEN SendDone(FALSE, "gmail", "not_configured", 0, 0, old_environ)
    ELSE IF outcome = "ssl_context_error"
    THEN SendDone(FALSE, "gmail", outcome, 0, 0, old_environ)
    ELSE SendDone(outcome = "sent", "gmail", outcome, 1, 0,
                  SslEnviron(has_certifi))

\* lines 329-408
send_email_sendgrid(credentials, old_environ, outcome) ==
    IF ~credentials.SENDGRID_API_KEY
    THEN SendDone(FALSE, "sendgrid", "not_configured", 0, 0, old_environ)
    ELSE IF outcome = "client_error"
    THEN SendDone(FALSE, "sendgrid", outcome, 0, 0, old_environ)
    ELSE SendDone(outcome = "status_202", "sendgrid", outcome, 0, 1,
                  old_environ)

\* mutant: a failed Gmail attempt falls back to SendGrid
send_email_Failover(credentials, has_certifi, old_environ, outcomes) ==
    LET first == send_email_gmail(credentials, has_certifi, old_environ,
                                  outcomes.gmail)
        second == send_email_sendgrid(credentials, first.environ,
                                      outcomes.sendgrid)
    IN  IF credentials.GMAIL_USER /\ credentials.GMAIL_APP_PASSWORD
        THEN IF first.ok \/ ~credentials.SENDGRID_API_KEY THEN first
             ELSE [second EXCEPT !.smtp = first.smtp]
        ELSE IF credentials.SENDGRID_API_KEY
        THEN send_email_sendgrid(credentials, old_environ, outcomes.sendgrid)
        ELSE SendDone(FALSE, "none", "not_configured", 0, 0, old_environ)

\* mutant: with nothing configured the SendGrid request is made all the same
send_email_AlwaysSendGrid(credentials, has_certifi, old_environ, outcomes) ==
    IF credentials.GMAIL_USER /\ credentials.GMAIL_APP_PASSWORD
    THEN send_email_gmail(credentials, has_certifi, old_environ, outcomes.gmail)
    ELSE IF credentials.SENDGRID_API_KEY
    THEN send_email_sendgrid(credentials, old_environ, outcomes.sendgrid)
    ELSE SendDone(FALSE, "sendgrid", "request_error", 0, 1, old_environ)

\* lines 304-326
send_email(credentials, has_certifi, old_environ, outcomes) ==
    IF credentials.GMAIL_USER /\ credentials.GMAIL_APP_PASSWORD
    THEN send_email_gmail(credentials, has_certifi, old_environ, outcomes.gmail)
    ELSE IF credentials.SENDGRID_API_KEY
    THEN send_email_sendgrid(credentials, old_environ, outcomes.sendgrid)
    ELSE SendDone(FALSE, "none", "not_configured", 0, 0, old_environ)

\* one call of send_email, for any behaviour of the transports
SendEmail ==
    /\ pc = "send_call"
    /\ \E outcomes \in [gmail : GmailOutcomes, sendgrid : SendGridOutcomes] :
           LET done == send_email(env, certifi, environ, outcomes)
           IN  /\ send_result' = done.ok
               /\ delivery' = [transport |-> done.transport,
                               outcome |-> done.outcome]
               /\ smtp_calls' = smtp_calls + done.smtp
               /\ sendgrid_calls' = sendgrid_calls + done.sendgrid
               /\ environ' = done.environ
    /\ pc' = "send_returned"
    /\ UNCHANGED <<clock, confVars, fetchVars, sumVars, runVars>>

\* os.environ as the operator may have set it before the process started
EnvironInputs ==
    {NoEnviron, [SSL_CERT_FILE |-> "custom", REQUESTS_CA_BUNDLE |-> "custom"]}

\* send_email called directly, under any credential configuration
InitSend ==
    /\ pc = "send_call"
    /\ clock = 0
    /\ entry = "send_email"
    /\ env \in {e \in Envs : e.OPENROUTER_API_KEY}
    /\ args \in {a \in Args : /\ a.keywords = <<>>
                              /\ a.max_papers = 0
                              /\ a.days_back = 1
                              /\ a.sort_by_relevance
                              /\ a.priority_sources = <<>>}
    /\ tz = 0
    /\ certifi \in BOOLEAN
    /\ upstream = <<>>
    /\ environ \in EnvironInputs
    /\ ConfigIdle
    /\ FetchIdle
    /\ SummariseIdle
    /\ SendIdle
    /\ RunIdle

NextSend == SendEmail

SpecSend == InitSend /\ [][NextSend]_vars

-----------------------------------------------------------------------------
(* The two entry points: daily_digest.main with generate_daily_digest, and    *)
(* the "Generate & Send Digest" button of the Streamlit page.                 *)

\* "Summary generation failed - see original abstract"
MsgFallback == <<"S", "u", "m", " ", "f", "a", "i", "l", "e", "d">>

\* what the request of one summary may do in a run: time out, be refused,
\* or answer with a text, an empty text or an unreadable body
RunHttpOutcomes ==
    {[kind |-> "Timeout"]}
        \cup {o \in HttpOutcomes :
                 /\ o.kind = "response"
                 /\ \/ /\ o.status_code = 500
                       /\ o.body = [json |-> FALSE, as_request_exception |-> FALSE]
                    \/ /\ o.status_code = 200
                       /\ \/ o.body = [json |-> FALSE, as_request_exception |-> FALSE]
                          \/ /\ o.body.json
                             /\ o.body.error = None
                             /\ o.body.choices \in
                                   {Some(<<[message |-> Some([content |-> Some(c)])]>>) :
                                       c \in {<<>>, <<"*", " ", "o", "k">>}}}

Digest(paper, text) == [paper |-> paper, summary |-> text]

\* daily_digest.py lines 77-79
NormaliseSummary(text) ==
    IF StartsWith(text, <<CrossMark>>) THEN MsgFallback ELSE text

\* mutant: main does not test the credential before it starts the run
MainValidate_CredentialUnchecked ==
    /\ pc = "main"
    /\ entry = "cli"
    /\ IF args.email = <<>>
       THEN /\ report' = "email_required"
            /\ exit_code' = 1
            /\ pc' = "exited"
       ELSE /\ pc' = "fetch_call"
            /\ UNCHANGED <<report, exit_code>>
    /\ UNCHANGED <<clock, confVars, fetchVars, sumVars, sendVars, rendered>>

\* daily_digest.py lines 156-165: main checks the recipient and the credential
MainValidate ==
    /\ pc = "main"
    /\ entry = "cli"
    /\ IF args.email = <<>>
       THEN /\ report' = "email_required"
            /\ exit_code' = 1
            /\ pc' = "exited"
       ELSE IF ~env.OPENROUTER_API_KEY
       THEN /\ report' = "no_api_key"
            /\ exit_code' = 1
            /\ pc' = "exited"
       ELSE /\ pc' = "fetch_call"
            /\ UNCHANGED <<report, exit_code>>
    /\ UNCHANGED <<clock, confVars, fetchVars, sumVars, sendVars, rendered>>

\* daily_digest.py lines 56-63: nothing catches what fetch_papers raises
DailyFetchRaised ==
    /\ pc = "fetch_raised"
    /\ entry = "cli"
    /\ report' = "traceback"
    /\ exit_code' = 1
    /\ pc' = "exited"
    /\ UNCHANGED <<clock, confVars, fetchVars, sumVars, sendVars, rendered>>

\* mutant: an empty fetch result is not tested and the run goes on
DailyAfterFetch_NoEmptyCheck ==
    /\ pc = "fetch_returned"
    /\ entry = "cli"
    /\ pc' = "summarise_loop"
    /\ UNCHANGED <<clock, confVars, fetchVars, sumVars, sendVars, runVars>>

\* daily_digest.py lines 65-72
DailyAfterFetch ==
    /\ pc = "fetch_returned"
    /\ entry = "cli"
    /\ IF papers = <<>>
       THEN /\ report' = "no_papers"
            /\ exit_code' = 1
            /\ pc' = "exited"
       ELSE /\ pc' = "summarise_loop"
            /\ UNCHANGED <<report, exit_code>>
    /\ UNCHANGED <<clock, confVars, fetchVars, sumVars, sendVars, rendered>>

\* daily_digest.py lines 73-81: one iteration of the summary loop
DailySummarise ==
    /\ pc = "summarise_loop"
    /\ entry = "cli"
    /\ Len(digests) < Len(papers)
    /\ \E outcome \in RunHttpOutcomes :
           LET paper == papers[Len(digests) + 1]
               result == summarise_abstract(env.OPENROUTER_API_KEY, outcome)
           IN  /\ http' = HttpOf(env.OPENROUTER_API_KEY, outcome)
               /\ summary' = result
               /\ llm_calls' = Append(llm_calls, paper.entry_id)
               /\ IF result.kind = "raise"
                  THEN /\ report' = "traceback"
                       /\ exit_code' = 1
                       /\ pc' = "exited"
                       /\ UNCHANGED digests
                  ELSE /\ digests' = Append(digests,
                               Digest(paper, NormaliseSummary(result.value)))
                       /\ UNCHANGED <<pc, report, exit_code>>
    /\ UNCHANGED <<clock, confVars, fetchVars, sendVars, rendered>>

\* daily_digest.py lines 83-108: format_paper_html for every digest entry
DailyRender ==
    /\ pc = "summarise_loop"
    /\ entry = "cli"
    /\ Len(digests) = Len(papers)
    /\ rendered' = digests
    /\ pc' = "send_call"
    /\ UNCHANGED <<clock, confVars, fetchVars, sumVars, sendVars, report,
                   exit_code>>

\* mutant: the exit status ignores what send_email returned
DailyExit_AlwaysZero ==
    /\ pc = "send_returned"
    /\ entry = "cli"
    /\ report' = IF send_result THEN "sent" ELSE "send_failed"
    /\ exit_code' = 0
    /\ pc' = "exited"
    /\ UNCHANGED <<clock, confVars, fetchVars, sumVars, sendVars, rendered>>

\* daily_digest.py lines 116-121 and 183
DailyExit ==
    /\ pc = "send_returned"
    /\ entry = "cli"
    /\ report' = IF send_result THEN "sent" ELSE "send_failed"
    /\ exit_code' = IF send_result THEN 0 ELSE 1
    /\ pc' = "exited"
    /\ UNCHANGED <<clock, confVars, fetchVars, sumVars, sendVars, rendered>>

\* streamlit_arxiv_digest.py lines 634-641
UiValidate ==
    /\ pc = "generate"
    /\ entry = "ui"
    /\ IF args.email = <<>>
       THEN /\ report' = "email_required"
            /\ pc' = "stopped"
       ELSE IF ~env.OPENROUTER_API_KEY
       THEN /\ report' = "no_api_key"
            /\ pc' = "stopped"
       ELSE /\ pc' = "fetch_call"
            /\ UNCHANGED report
    /\ UNCHANGED <<clock, confVars, fetchVars, sumVars, sendVars, rendered,
                   exit_code>>

\* streamlit_arxiv_digest.py lines 644-652: the page shows the exception
UiFetchRaised ==
    /\ pc = "fetch_raised"
    /\ entry = "ui"
    /\ report' = "traceback"
    /\ pc' = "stopped"
    /\ UNCHANGED <<clock, confVars, fetchVars, sumVars, sendVars, rendered,
                   exit_code>>

\* streamlit_arxiv_digest.py lines 654-665
UiAfterFetch ==
    /\ pc = "fetch_returned"
    /\ entry = "ui"
    /\ IF papers = <<>>
       THEN /\ report' = "no_papers"
            /\ pc' = "stopped"
       ELSE /\ pc' = "summarise_loop"
            /\ UNCHANGED report
    /\ UNCHANGED <<clock, confVars, fetchVars, sumVars, sendVars, rendered,
                   exit_code>>

\* streamlit_arxiv_digest.py lines 667-697: one iteration of the summary loop
UiSummarise ==
    /\ pc = "summarise_loop"
    /\ entry = "ui"
    /\ Len(digests) < Len(papers)
    /\ \E outcome \in RunHttpOutcomes :
           LET paper == papers[Len(digests) + 1]
               result == summarise_abstract(env.OPENROUTER_API_KEY, outcome)
           IN  /\ http' = HttpOf(env.OPENROUTER_API_KEY, outcome)
               /\ summary' = result
               /\ llm_calls' = Append(llm_calls, paper.entry_id)
               /\ IF result.kind = "raise"
                  THEN /\ report' = "traceback"
                       /\ pc' = "stopped"
                       /\ UNCHANGED digests
                  ELSE /\ digests' = Append(digests, Digest(paper, result.value))
                       /\ UNCHANGED <<pc, report>>
    /\ UNCHANGED <<clock, confVars, fetchVars, sendVars, rendered, exit_code>>

\* streamlit_arxiv_digest.py lines 703-744: format_paper_html for every digest
\* entry when the SendGrid key and the recipient are set
UiDeliver ==
    /\ pc = "summarise_loop"
    /\ entry = "ui"
    /\ Len(digests) = Len(papers)
    /\ IF env.SENDGRID_API_KEY /\ args.email # <<>>
       THEN /\ rendered' = digests
            /\ pc' = "send_call"
            /\ UNCHANGED report
       ELSE /\ report' = "not_sent"
            /\ pc' = "stopped"
            /\ UNCHANGED rendered
    /\ UNCHANGED <<clock, confVars, fetchVars, sumVars, sendVars, exit_code>>

\* streamlit_arxiv_digest.py lines 736-739
UiAfterSend ==
    /\ pc = "send_returned"
    /\ entry = "ui"
    /\ report' = IF send_result THEN "sent" ELSE "send_failed"
    /\ pc' = "stopped"
    /\ UNCHANGED <<clock, confVars, fetchVars, sumVars, sendVars, rendered,
                   exit_code>>

\* the records an entry-point run may be served: two fresh ones, one stale
RunPapers == {paper \in Papers : paper.entry_id \in {1, 2, 4}}

RunResponses ==
    {u \in Responses(RunMaxUpstream) :
        \A i \in 1..Len(u) : u[i] \in RunPapers}

RunArgs ==
    {a \in Args : /\ a.keywords = <<"a", "i">>
                  /\ a.days_back = 1
                  /\ a.priority_sources = <<>>}

\* a run of either entry point, under any configuration
Init ==
    /\ entry \in {"cli", "ui"}
    /\ pc = IF entry = "cli" THEN "main" ELSE "generate"
    /\ clock = 0
    /\ env \in Envs
    /\ args \in RunArgs
    /\ tz = 0
    /\ certifi \in BOOLEAN
    /\ upstream \in RunResponses
    /\ environ = NoEnviron
    /\ ConfigIdle
    /\ FetchIdle
    /\ SummariseIdle
    /\ SendIdle
    /\ RunIdle

Next ==
    \/ MainValidate
    \/ UiValidate
    \/ FetchBegin
    \/ FetchExamine
    \/ FetchExhausted
    \/ FetchUpstreamError
    \/ FetchReturn
    \/ DailyFetchRaised
    \/ DailyAfterFetch
    \/ DailySummarise
    \/ DailyRender
    \/ DailyExit
    \/ UiFetchRaised
    \/ UiAfterFetch
    \/ UiSummarise
    \/ UiDeliver
    \/ UiAfterSend
    \/ SendEmail

Spec == Init /\ [][Next]_vars

-----------------------------------------------------------------------------
(* daily_digest.main, lines 123-154: the flags and the configuration file.    *)
(* A string that is None or empty is <<>>: line 140 and line 157 only test    *)
(* its truth.  A categories list that is None is <<>> too.                    *)

\* daily_digest.py lines 127-131: the defaults of the parser, the two strings
\* abbreviated
DefaultKeywords == <<"a", "i">>
DefaultMaxPapers == 20
DefaultDaysBack == 7
DefaultPrioritySources == <<"x", "u", ",", " ">>

\* the command lines: each flag is left out or passed, some with the value
\* that is also the parser's default
FlagInputs ==
    [email : {Absent, Some(<<"a", "@", "b">>)},
     keywords : {Absent, Some(DefaultKeywords), Some(<<"g", "o">>)},
     categories : {Absent, Some(<<"A", ",", "L">>)},
     max_papers : {Absent, Some(DefaultMaxPapers), Some(1)},
     days_back : {Absent, Some(1)},
     priority_sources : {Absent, Some(<<"m", "i", "t">>)},
     no_relevance_sort : BOOLEAN]

\* the configuration files: a JSON object with any of the seven keys
ConfigInputs ==
    [email : {Absent, Some(<<"c", "@", "d">>)},
     keywords : {Absent, Some(<<"A", "I", ",", " ", "g", "o", ",">>)},
     categories : {Absent, Some(<< <<"V">> >>)},
     max_papers : {Absent, Some(2)},
     days_back : {Absent, Some(2)},
     priority_sources : {Absent, Some(<<>>)},
     sort_by_relevance : {Absent, Some(TRUE), Some(FALSE)}]

\* line 134: parser.parse_args() gives a passed flag's value or the default
ParseArgs(flags) ==
    [email |-> Get(flags.email, <<>>),
     keywords |-> Get(flags.keywords, DefaultKeywords),
     categories |-> Get(flags.categories, <<>>),
     max_papers |-> Get(flags.max_papers, DefaultMaxPapers),
     days_back |-> Get(flags.days_back, DefaultDaysBack),
     priority_sources |-> Get(flags.priority_sources, DefaultPrioritySources),
     no_relevance_sort |-> flags.no_relevance_sort]

\* lines 140-146: the settings when --config is passed
MergeConfig(ns, file) ==
    [email |-> IF ns.email # <<>> THEN ns.email ELSE Get(file.email, <<>>),
     keywords |-> IF ns.keywords # DefaultKeywords THEN ns.keywords
                  ELSE Get(file.keywords, ns.keywords),
     categories |-> Get(file.categories, <<>>),
     max_papers |-> IF ns.max_papers # DefaultMaxPapers THEN ns.max_papers
                    ELSE Get(file.max_papers, ns.max_papers),
     days_back |-> IF ns.days_back # DefaultDaysBack THEN ns.days_back
                   ELSE Get(file.days_back, ns.days_back),
     sort_by_relevance |-> Get(file.sort_by_relevance, ~ns.no_relevance_sort),
     priority_sources |->
         IF ns.priority_sources # DefaultPrioritySources THEN ns.priority_sources
         ELSE Get(file.priority_sources, ns.priority_sources)]

\* lines 148-154: the settings without --config
FromFlags(ns) ==
    [email |-> ns.email,
     keywords |-> ns.keywords,
     categories |-> IF ns.categories # <<>> THEN Split(ns.categories) ELSE <<>>,
     max_papers |-> ns.max_papers,
     days_back |-> ns.days_back,
     sort_by_relevance |-> ~ns.no_relevance_sort,
     priority_sources |-> ns.priority_sources]

\* lines 134-154: main parses the command line and merges the file
MainParse ==
    /\ pc = "main_parse"
    /\ entry = "cli"
    /\ args' = IF config # Absent
               THEN MergeConfig(ParseArgs(argv), ValueOf(config))
               ELSE FromFlags(ParseArgs(argv))
    /\ pc' = "main"
    /\ UNCHANGED <<clock, entry, env, tz, certifi, argv, config, fetchVars,
                   sumVars, sendVars, runVars>>

\* the automation entry point from its command line up to the validation
InitConfig ==
    /\ pc = "main_parse"
    /\ clock = 0
    /\ entry = "cli"
    /\ env \in {e \in Envs : ~e.SENDGRID_API_KEY /\ ~e.GMAIL_USER
                              /\ ~e.GMAIL_APP_PASSWORD}
    /\ argv \in FlagInputs
    /\ config \in {Absent} \cup {Some(file) : file \in ConfigInputs}
    /\ args = FromFlags(ParseArgs(NoFlags))
    /\ tz = 0
    /\ certifi = FALSE
    /\ upstream = <<>>
    /\ environ = NoEnviron
    /\ FetchIdle
    /\ SummariseIdle
    /\ SendIdle
    /\ RunIdle

NextConfig ==
    \/ MainParse
    \/ MainValidate

SpecConfig == InitConfig /\ [][NextConfig]_vars

-----------------------------------------------------------------------------
(* Properties of fetch_papers *)

Returned == pc = "fetch_returned"

Ids(seq) == {seq[i].entry_id : i \in 1..Len(seq)}

\* position of a returned record among the accepted candidates
PosOf(paper) ==
    CHOOSE k \in 1..Len(papers_with_scores) :
        papers_with_scores[k].paper = paper

ScoreOf(paper) == papers_with_scores[PosOf(paper)].score

\* C1: fetch_papers returns at most max_papers records, each of them one of
\* the upstream records, none of them twice.
C1_AtMostMaxPapers ==
    Returned =>
        /\ Len(papers) <= args.max_papers
        /\ \A i \in 1..Len(papers) :
               \E j \in 1..Len(upstream) : papers[i] = upstream[j]
        /\ Cardinality(Ids(papers)) = Len(papers)

\* more candidates passed the cutoff than max_papers, and the result is full
C1_Witness ==
    /\ Returned
    /\ args.max_papers > 0
    /\ Len(papers_with_scores) > args.max_papers
    /\ Len(papers) = args.max_papers

\* the instant "now - days_back" of this call: cutoff_date is the naive local
\* reading of it
CutoffInstant == cutoff_date - tz

\* C2: no returned record was published before now - days_back.
C2_NoneOlderThanLookback ==
    Returned =>
        \A i \in 1..Len(papers) : papers[i].published >= CutoffInstant

\* C3: with relevance sorting, the result is the max_papers best candidates
\* in non-increasing score order, equal scores in upstream order.
C3_TopByScoreStable ==
    (Returned /\ args.sort_by_relevance) =>
        /\ Len(papers) = Min(args.max_papers, Len(papers_with_scores))
        /\ Cardinality(Ids(papers)) = Len(papers)
        /\ \A i \in 1..Len(papers) :
               \E k \in 1..Len(papers_with_scores) :
                   papers_with_scores[k].paper = papers[i]
        /\ \A i, j \in 1..Len(papers) :
               i < j =>
                   \/ ScoreOf(papers[i]) > ScoreOf(papers[j])
                   \/ /\ ScoreOf(papers[i]) = ScoreOf(papers[j])
                      /\ PosOf(papers[i]) < PosOf(papers[j])
        /\ \A i \in 1..Len(papers) :
               \A k \in 1..Len(papers_with_scores) :
                   papers_with_scores[k].paper.entry_id \notin Ids(papers) =>
                       \/ ScoreOf(papers[i]) > papers_with_scores[k].score
                       \/ /\ ScoreOf(papers[i]) = papers_with_scores[k].score
                          /\ PosOf(papers[i]) < k

\* the sort moved a later candidate ahead, kept a tie in upstream order and
\* the truncation dropped a candidate
C3_Witness ==
    /\ Returned
    /\ args.sort_by_relevance
    /\ Len(papers) = 2
    /\ Len(papers_with_scores) = 3
    /\ ScoreOf(papers[1]) = ScoreOf(papers[2])
    /\ papers_with_scores[1].score < papers_with_scores[3].score

\* the upstream records that pass the cutoff test, in upstream order
PassingUpstream ==
    SelectSeq(upstream, LAMBDA paper : paper.published >= cutoff_date)

\* C4: without relevance sorting, the result is the first max_papers upstream
\* records that pass the cutoff, in upstream order, and no score is computed.
C4_UpstreamOrderPrefix ==
    (Returned /\ ~args.sort_by_relevance) =>
        /\ papers = SubSeq(PassingUpstream, 1,
                           Min(args.max_papers, Len(PassingUpstream)))
        /\ \A k \in 1..Len(papers_with_scores) :
               papers_with_scores[k].score = 0

\* the first upstream record is stale and is skipped, and a later passing
\* record is cut off
C4_Witness ==
    /\ Returned
    /\ ~args.sort_by_relevance
    /\ args.max_papers > 0
    /\ Len(papers) = args.max_papers
    /\ Len(PassingUpstream) > Len(papers)
    /\ upstream[1].published < cutoff_date

\* C19: for a positive max_papers, fetch_papers never examines more than
\* max_papers * 3 upstream records, stale ones counted.
C19_ScanCapCountsExamined ==
    (entry = "fetch_papers" /\ args.max_papers > 0) =>
        examined <= SearchLimit(args.max_papers)

\* what accepted candidate k scored apart from its recency term
NonRecencyOf(k) ==
    LET paper == papers_with_scores[k].paper
        priority_keywords == PriorityKeywords(args.keywords)
    IN  3 * ScoreScale * KeywordHits(priority_keywords, paper.title)
          + ScoreScale * KeywordHits(priority_keywords, paper.summary)
          + AuthorScore(paper)
          + SourceScore(paper, PrioritySourceList(args.priority_sources))

\* the recency term accepted candidate k was scored with
RecencyOf(k) == papers_with_scores[k].score - NonRecencyOf(k)

\* the instant the cutoff of this call was computed from
CutoffNow == cutoff_date + args.days_back * DayLen

\* C20: within one call of fetch_papers with relevance sorting, two accepted
\* records with the same publication instant have the same recency term, and
\* every recency term is computed from the instant the cutoff was computed
\* from.
C20_SingleNow ==
    args.sort_by_relevance =>
        /\ \A i, j \in 1..Len(papers_with_scores) :
               papers_with_scores[i].paper.published
                   = papers_with_scores[j].paper.published
                 => RecencyOf(i) = RecencyOf(j)
        /\ \A k \in 1..Len(papers_with_scores) :
               RecencyOf(k) = RecencyScore(papers_with_scores[k].paper, CutoffNow)

-----------------------------------------------------------------------------
(* Properties of calculate_paper_score *)

ScoreReturned == pc = "score_returned"

\* the lower-cased author names of the scored record, joined by blanks
AuthorNames ==
    Join([i \in 1..Len(upstream[1].authors) |-> Lower(upstream[1].authors[i])])

\* the patterns in force: the caller's list, or the built-in one when the
\* caller's is empty
SourcePatterns ==
    IF PrioritySourceList(args.priority_sources) = <<>> THEN DefaultSources
    ELSE PrioritySourceList(args.priority_sources)

\* the patterns that occur in the author names
MatchingPatterns ==
    SelectSeq(SourcePatterns,
              LAMBDA pattern : Contains(AuthorNames, Strip(Lower(pattern))))

\* C16: the priority-source bonus is 2 when some pattern occurs in the
\* lower-cased author names and 0 otherwise, however many patterns occur, and
\* it enters the score once.
C16_SourceBonusBinary ==
    ScoreReturned =>
        LET parts == ValueOf(scored)
        IN  /\ parts.source = IF MatchingPatterns # <<>> THEN 2 * ScoreScale
                              ELSE 0
            /\ parts.score = parts.recency + parts.title + parts.abstract
                                + parts.authors + parts.source

\* two patterns match, each a different author, and the bonus is 2
C16_Witness ==
    /\ ScoreReturned
    /\ Len(MatchingPatterns) = 2
    /\ Contains(Lower(upstream[1].authors[1]), Lower(MatchingPatterns[2]))
    /\ Contains(Lower(upstream[1].authors[2]), Lower(MatchingPatterns[1]))
    /\ ~Contains(Lower(upstream[1].authors[1]), Lower(MatchingPatterns[1]))
    /\ ValueOf(scored).source = 2 * ScoreScale

\* the keyword terms that occur in a text, case-insensitively
TermsIn(text) ==
    SelectSeq(PriorityKeywords(args.keywords),
              LAMBDA term : Contains(Lower(text), Lower(term)))

\* C17: the keyword contribution is 3 for every keyword term that occurs in
\* the title and 1 for every term that occurs in the abstract, uncapped, and
\* 0 from both when there is no keyword.
C17_KeywordContribution ==
    ScoreReturned =>
        LET parts == ValueOf(scored)
        IN  /\ parts.title = 3 * ScoreScale * Len(TermsIn(upstream[1].title))
            /\ parts.abstract = ScoreScale * Len(TermsIn(upstream[1].summary))
            /\ PriorityKeywords(args.keywords) = <<>> =>
                   parts.title = 0 /\ parts.abstract = 0

\* two terms occur in the title and one of them in the abstract
C17_Witness ==
    /\ ScoreReturned
    /\ Len(TermsIn(upstream[1].title)) = 2
    /\ Len(TermsIn(upstream[1].summary)) = 1
    /\ ValueOf(scored).title = 6 * ScoreScale
    /\ ValueOf(scored).abstract = ScoreScale

\* C18: the recency term lies between 0 and 2, is 0 for a record more than
\* seven days old and is 2 for a record dated in the future.
C18_RecencyBounded ==
    ScoreReturned =>
        LET parts == ValueOf(scored)
        IN  /\ 0 <= parts.recency
            /\ parts.recency <= 2 * ScoreScale
            /\ clock - upstream[1].published > 7 * DayLen => parts.recency = 0
            /\ upstream[1].published > clock => parts.recency = 2 * ScoreScale

\* C15: whatever max_papers the caller supplies, fetch_papers returns at most
\* MAX_RESULTS records.
C15_HardCeiling ==
    Returned => Len(papers) <= MAX_RESULTS

-----------------------------------------------------------------------------
(* Properties of summarise_abstract *)

\* the call did not end in a usable summary: no credential, no response, a
\* non-200 status, an unreadable or error body, or no text in the response
SummariseFailed ==
    \/ ~env.OPENROUTER_API_KEY
    \/ http.kind # "response"
    \/ http.status_code # 200
    \/ ~http.body.json
    \/ http.body.error # None
    \/ http.body.choices = Absent
    \/ ValueOf(http.body.choices) = <<>>
    \/ ValueOf(http.body.choices)[1].message = Absent
    \/ ValueOf(ValueOf(http.body.choices)[1].message).content = Absent
    \/ Strip(ValueOf(ValueOf(ValueOf(http.body.choices)[1].message).content))
           = <<>>

\* C6: summarise_abstract never raises and never returns an empty string, and
\* every failure path returns a string that starts with the cross mark.
C6_FailureMarker ==
    pc = "summarise_returned" =>
        /\ summary.kind = "return"
        /\ summary.value # <<>>
        /\ SummariseFailed => StartsWith(summary.value, <<CrossMark>>)

-----------------------------------------------------------------------------
(* Properties of send_email *)

GmailConfigured == env.GMAIL_USER /\ env.GMAIL_APP_PASSWORD

SendReturned == pc = "send_returned"

\* C9: the transport is chosen by credential presence alone, at most one
\* transport is attempted, and a failed attempt returns false with no retry
\* and no attempt on the other transport.
C9_OneTransportNoFailover ==
    SendReturned =>
        /\ GmailConfigured <=> delivery.transport = "gmail"
        /\ (~GmailConfigured /\ env.SENDGRID_API_KEY)
               <=> delivery.transport = "sendgrid"
        /\ smtp_calls + sendgrid_calls <= 1
        /\ delivery.transport = "gmail" => sendgrid_calls = 0
        /\ delivery.transport = "sendgrid" => smtp_calls = 0
        /\ delivery.outcome \notin {"sent", "status_202"} => send_result = FALSE

\* Gmail was chosen and failed while SendGrid was configured too
C9_Witness ==
    /\ SendReturned
    /\ GmailConfigured
    /\ env.SENDGRID_API_KEY
    /\ delivery.outcome = "smtp_error"
    /\ smtp_calls = 1
    /\ send_result = FALSE

NoTransportConfigured == ~GmailConfigured /\ ~env.SENDGRID_API_KEY

\* C10: with neither transport configured send_email returns false and makes
\* no outbound call.
C10_NothingConfiguredNoCall ==
    (SendReturned /\ NoTransportConfigured) =>
        /\ send_result = FALSE
        /\ smtp_calls = 0
        /\ sendgrid_calls = 0

\* only half of the Gmail pair is set, and SendGrid is not
C10_Witness ==
    /\ SendReturned
    /\ NoTransportConfigured
    /\ env.GMAIL_USER
    /\ send_result = FALSE

-----------------------------------------------------------------------------
(* Properties of the entry points *)

Finished == pc \in {"exited", "stopped"}

\* C5: a failed upstream search is never turned into a returned (empty)
\* result, and the entry point does not report it as "no papers found".
C5_UpstreamFailureDistinct ==
    upstream_failed =>
        /\ pc \notin {"fetch_rank", "fetch_returned", "summarise_loop"}
        /\ report # "no_papers"
        /\ Finished => report = "traceback"

\* the provider failed after it had already delivered a record
C5_Witness ==
    /\ upstream_failed
    /\ examined > 0
    /\ pc = "exited"
    /\ report = "traceback"

\* the strings summarise_abstract returns on its failure paths
ErrorResults ==
    {MsgNoKey, MsgApiError, MsgOpenRouterError, MsgNoContent, MsgTimeout,
     MsgNetworkError, MsgErrorGenerating}

\* C7: no pair given to format_paper_html carries an error result of
\* summarise_abstract; each has been replaced by the fallback string.
C7_RenderedSummariesNormalised ==
    \A i \in 1..Len(rendered) : rendered[i].summary \notin ErrorResults

\* C8: generate_daily_digest summarises every fetched paper once, in fetch
\* order, whatever the summaries' outcomes, and then renders and delivers.
C8_EveryPaperSummarisedOnce ==
    entry = "cli" =>
        /\ Len(llm_calls) = Len(digests)
        /\ Len(digests) <= Len(papers)
        /\ \A i \in 1..Len(digests) :
               /\ llm_calls[i] = papers[i].entry_id
               /\ digests[i].paper = papers[i]
        /\ (pc \in {"send_call", "send_returned"} \/ (pc = "exited" /\ papers # <<>>))
               => /\ Len(digests) = Len(papers)
                  /\ rendered = digests
        /\ (pc = "exited" /\ papers # <<>>) => report \in {"sent", "send_failed"}

\* the first of two summaries failed, the second succeeded, the digest was sent
C8_Witness ==
    /\ entry = "cli"
    /\ pc = "exited"
    /\ Len(papers) = 2
    /\ Len(digests) = 2
    /\ digests[1].summary = MsgFallback
    /\ digests[2].summary = <<"*", " ", "o", "k">>
    /\ report = "sent"

\* the recipient or the LLM credential is missing
MissingConfiguration == args.email = <<>> \/ ~env.OPENROUTER_API_KEY

\* C11: in both entry points a run with a missing recipient or a missing LLM
\* credential halts at the validation: it never starts a paper search, never
\* requests a summary and never attempts a delivery.
C11_ConfigErrorHaltsBeforeCalls ==
    (entry \in {"cli", "ui"} /\ MissingConfiguration) =>
        /\ pc \in {"main", "generate", "exited", "stopped"}
        /\ examined = 0
        /\ ~upstream_failed
        /\ llm_calls = <<>>
        /\ smtp_calls = 0
        /\ sendgrid_calls = 0
        /\ Finished => report \in {"email_required", "no_api_key"}

\* the credential is missing while a recipient, a transport and upstream
\* records are there, and the interactive run has stopped
C11_Witness ==
    /\ entry = "ui"
    /\ pc = "stopped"
    /\ args.email # <<>>
    /\ ~env.OPENROUTER_API_KEY
    /\ env.SENDGRID_API_KEY
    /\ upstream # <<>>
    /\ report = "no_api_key"

\* exactly one outbound delivery was made for a rendered digest and it succeeded
DeliverySucceeded ==
    /\ rendered # <<>>
    /\ smtp_calls + sendgrid_calls = 1
    /\ delivery.outcome = IF smtp_calls = 1 THEN "sent" ELSE "status_202"

\* C12: the automation entry point exits with 0 exactly when the digest was
\* sent, and with 1 on a missing recipient, a missing LLM credential, an empty
\* fetch result and a failed delivery.
C12_ExitCodeReflectsDelivery ==
    (entry = "cli" /\ pc = "exited") =>
        /\ exit_code = IF DeliverySucceeded THEN 0 ELSE 1
        /\ report \in {"email_required", "no_api_key", "no_papers",
                        "send_failed"} => exit_code = 1

\* a digest went out through SendGrid and the process exited with 0
C12_Witness ==
    /\ entry = "cli"
    /\ pc = "exited"
    /\ exit_code = 0
    /\ sendgrid_calls = 1
    /\ delivery.outcome = "status_202"

\* every fetched paper has its digest entry
AllSummarised == papers # <<>> /\ Len(digests) = Len(papers)

\* C13: in both entry points a finished run with digest entries, a recipient
\* and at least one configured transport has invoked send_email; and with no
\* transport configured every fetched paper is still summarised.
C13_DeliveryDisabledOnlyWithoutTransports ==
    (entry \in {"cli", "ui"} /\ Finished /\ papers # <<>>) =>
        /\ (AllSummarised /\ args.email # <<>>
               /\ (GmailConfigured \/ env.SENDGRID_API_KEY))
              => report \in {"sent", "send_failed"}
        /\ NoTransportConfigured => AllSummarised

-----------------------------------------------------------------------------
(* Properties of the command line *)

\* C14: with a configuration file, every setting whose flag is passed has
\* the flag's value, and every other setting has the file's value when the
\* file gives one.
C14_FlagsOverrideConfig ==
    (entry = "cli" /\ pc # "main_parse" /\ config # Absent) =>
        LET file == ValueOf(config)
        IN  /\ args.email = IF argv.email # Absent THEN ValueOf(argv.email)
                            ELSE Get(file.email, <<>>)
            /\ args.keywords =
                   IF argv.keywords # Absent THEN ValueOf(argv.keywords)
                   ELSE Get(file.keywords, DefaultKeywords)
            /\ args.categories =
                   IF argv.categories # Absent
                   THEN Split(ValueOf(argv.categories))
                   ELSE Get(file.categories, <<>>)
            /\ args.max_papers =
                   IF argv.max_papers # Absent THEN ValueOf(argv.max_papers)
                   ELSE Get(file.max_papers, DefaultMaxPapers)
            /\ args.days_back =
                   IF argv.days_back # Absent THEN ValueOf(argv.days_back)
                   ELSE Get(file.days_back, DefaultDaysBack)
            /\ args.priority_sources =
                   IF argv.priority_sources # Absent
                   THEN ValueOf(argv.priority_sources)
                   ELSE Get(file.priority_sources, DefaultPrioritySources)
            /\ args.sort_by_relevance =
                   IF argv.no_relevance_sort THEN FALSE
                   ELSE Get(file.sort_by_relevance, TRUE)

-----------------------------------------------------------------------------
(* Properties of the process-wide state *)

\* C21: no step of a run changes the process environment or the module-level
\* credentials: every later call sees the configuration the run started with.
C21_NoProcessStateChange ==
    [][environ' = environ /\ env' = env]_vars

-----------------------------------------------------------------------------
(* Properties of the order of the steps of generate_daily_digest *)

\* the positions before fetch_papers has returned
BeforeFetchReturned ==
    pc \in {"main", "fetch_call", "fetch_loop", "fetch_rank", "fetch_raised",
            "fetch_returned"}

\* the order of the steps as far as one state shows it
StepOrderState ==
    entry = "cli" =>
        /\ llm_calls # <<>> => ~BeforeFetchReturned
        /\ pc \in {"send_call", "send_returned"} =>
               AllSummarised /\ Len(llm_calls) = Len(papers)
        /\ smtp_calls + sendgrid_calls <= 1
        /\ smtp_calls + sendgrid_calls = 1 => AllSummarised
        /\ papers = <<>> =>
               /\ llm_calls = <<>>
               /\ smtp_calls + sendgrid_calls = 0
               /\ pc \notin {"summarise_loop", "send_call", "send_returned"}

\* the order of the steps as far as one step shows it
StepOrderAction ==
    entry = "cli" =>
        /\ (pc # "send_call" /\ pc' = "send_call") =>
               pc = "summarise_loop" /\ AllSummarised
        /\ pc = "send_returned" => pc' = "exited"
        /\ (pc = "fetch_returned" /\ papers = <<>>) =>
               pc' = "exited" /\ report' = "no_papers" /\ exit_code' = 1

\* C22: generate_daily_digest fetches, then summarises every fetched paper,
\* then calls send_email, once; an empty fetch result ends the run with False
\* before any summary request and any delivery attempt.
C22_FetchSummariseDeliverOrder ==
    []StepOrderState /\ [][StepOrderAction]_vars

\* both fetched papers were summarised in fetch order before the one Gmail
\* attempt, and send_email has returned
C22_Witness ==
    /\ entry = "cli"
    /\ pc = "send_returned"
    /\ Len(papers) = 2
    /\ llm_calls = <<papers[1].entry_id, papers[2].entry_id>>
    /\ smtp_calls = 1
    /\ sendgrid_calls = 0

=============================================================================
